---- MODULE Spec2Model ----
(***************************************************************************)
(* KEF wireless speaker platform (custom_components/kef/media_player.py). *)
(*                                                                         *)
(* KefMediaPlayer caches a snapshot of the speaker (_state, _muted,        *)
(* _source, _volume).  async_update refreshes it, the command entry points *)
(* drive the speaker through AsyncKefSpeaker.  Every `await` of a handler  *)
(* is a suspension point, so a poll and a command may interleave.          *)
(*                                                                         *)
(* Volumes are fractions of 1 counted in hundredths (0.5 is 50).           *)
(* AsyncKefSpeaker (custom_components/kef/async_kef_api.py) is modelled    *)
(* from its documented contract.                                           *)
(***************************************************************************)
EXTENDS Integers, Sequences, FiniteSets, TLC

VARIABLES
    maximum_volume,  \* configuration: volume ceiling, hundredths
    volume_step,     \* configuration: relative volume step, hundredths
    _state,          \* KefMediaPlayer._state: "None", "on", "off"
    _muted,          \* KefMediaPlayer._muted: "None", "True", "False"
    _source,         \* KefMediaPlayer._source: "None" or a source name
    _volume,         \* KefMediaPlayer._volume: NoneVolume or hundredths
    dev_online,      \* the speaker answers on its control port
    dev_on,          \* the speaker is powered on
    dev_muted,       \* the speaker's mute bit
    dev_volume,      \* the speaker's volume register, hundredths
    dev_source,      \* the speaker's active input
    pollPc,          \* the await async_update is suspended at, or "idle"
    pollCalls,       \* client calls issued by the current / last poll
    pollResult,      \* how the last poll ended
    cmdPc,           \* "idle", or "await": a command is suspended in its client call
    cmdOp,           \* the current / last command entry point
    cmdArgs,         \* its arguments
    cmdCalls,        \* client calls issued by the current / last command
    cmdCallResult,   \* "none", "pending", "ok", "failed": fate of that client call
    cmdOutcome,      \* "none", "ok", "CommunicationError", "ValueError"
    upRun,           \* successful increase_volume calls in a row since the
                     \* register was 0, or -1 when the register has another history
    _sources,        \* KefMediaPlayer._sources
    hass_data,       \* hass.data[DATA_KEF]: unique_id -> entity, 0 when absent
    added,           \* entities handed to async_add_entities, in order
    created,         \* KefMediaPlayer objects constructed so far
    audit,           \* which history a run keeps: "off", "overlap", "snapshot"
    overlap,         \* audit "overlap": the current / last poll and the current /
                     \* last command were in flight at the same time
    cmdPre           \* audit "snapshot": the cache when the current / last
                     \* command was invoked

vars == <<maximum_volume, volume_step, _state, _muted, _source, _volume,
          dev_online, dev_on, dev_muted, dev_volume, dev_source,
          pollPc, pollCalls, pollResult,
          cmdPc, cmdOp, cmdArgs, cmdCalls, cmdCallResult, cmdOutcome, upRun,
          _sources, hass_data, added, created, audit, overlap, cmdPre>>

config == <<maximum_volume, volume_step>>
cache  == <<_state, _muted, _source, _volume>>
device == <<dev_on, dev_muted, dev_volume, dev_source>>
pollVars == <<pollPc, pollCalls, pollResult>>
cmdVars == <<cmdPc, cmdOp, cmdArgs, cmdCalls, cmdCallResult, cmdOutcome>>
platform == <<hass_data, added, created>>
setup == <<_sources, platform, audit>>
history == <<overlap, cmdPre>>

---------------------------------------------------------------------------
(* Constants of the platform *)

STATE_ON == "on"
STATE_OFF == "off"
None == "None"
NoneVolume == -1            \* None in the integer-valued _volume
FullScale == 100            \* 1.0 in hundredths
DEFAULT_MAX_VOLUME == 50    \* 0.5
DEFAULT_VOLUME_STEP == 5    \* 0.05
DEFAULT_PORT == 50001

\* sorted(INPUT_SOURCES.keys()), cut to two inputs
KEF_LS50_SOURCES == <<"Aux", "Wifi">>

(* Bounds of the exploration *)

VolumeGrid == 25            \* Spec: ceiling, step and the unit of volume arguments
MaxGridIndex == 2           \* largest multiple offered as an argument
MaxOver == 2                \* increases counted past the ceiling

Min(a, b) == IF a < b THEN a ELSE b
Max(a, b) == IF a > b THEN a ELSE b
Range(s) == {s[i] : i \in 1..Len(s)}
PyBool(b) == IF b THEN "True" ELSE "False"

VolumeInputs == {k * VolumeGrid : k \in 0..MaxGridIndex} \cap (0..FullScale)
SourceInputs == Range(KEF_LS50_SOURCES) \cup {"Unknown"}
NoArgs == [volume |-> NoneVolume, mute |-> FALSE, source |-> None]
RunCap == (maximum_volume \div volume_step) + MaxOver

\* configurations offered to async_setup_platform; unique_id = f"{host}:{port}"
\* is the pair, as the port is a number and so holds no ":"
Hosts == {"kef-a", "kef-b"}
Ports == {DEFAULT_PORT, DEFAULT_PORT + 1}
UniqueId(host, port) == <<host, port>>
UniqueIds == {UniqueId(h, p) : h \in Hosts, p \in Ports}
ThisUniqueId == UniqueId("kef-a", DEFAULT_PORT)

---------------------------------------------------------------------------
(* AsyncKefSpeaker: what a successful client call returns / writes *)

Clamp(level, ceiling) == Max(0, Min(level, ceiling))
get_volume(register, ceiling) == Clamp(register, ceiling)
set_volume(level, ceiling) == Clamp(level, ceiling)
increase_volume(register, step, ceiling) ==
    Clamp(get_volume(register, ceiling) + step, ceiling)
decrease_volume(register, step, ceiling) ==
    Clamp(get_volume(register, ceiling) - step, ceiling)
is_muted(bit) == PyBool(bit)
get_source_and_state(input, powered) == <<input, powered>>

\* A client call succeeds only against a reachable speaker; against a
\* reachable one it may still time out.
CallOutcomes == IF dev_online THEN {TRUE, FALSE} ELSE {FALSE}

\* upRun after the register is written by something else than increase_volume
RunFrom(register) == IF register = 0 THEN 0 ELSE -1
RunAfterIncrease == IF upRun >= 0 /\ upRun < RunCap THEN upRun + 1 ELSE -1

---------------------------------------------------------------------------
(* KefMediaPlayer.__init__ *)

InitEntity ==
    /\ _state = None
    /\ _muted = None
    /\ _source = None
    /\ _volume = NoneVolume
    /\ pollPc = "idle"
    /\ pollCalls = <<>>
    /\ pollResult = "none"
    /\ cmdPc = "idle"
    /\ cmdOp = "none"
    /\ cmdArgs = NoArgs
    /\ cmdCalls = <<>>
    /\ cmdCallResult = "none"
    /\ cmdOutcome = "none"
    /\ _sources = KEF_LS50_SOURCES
    /\ overlap = FALSE
    /\ cmdPre = <<None, None, None, NoneVolume>>

\* async_setup_platform has registered and added this one entity
InitPlatform ==
    /\ hass_data = [u \in UniqueIds |-> IF u = ThisUniqueId THEN 1 ELSE 0]
    /\ added = <<[unique_id |-> ThisUniqueId, entity |-> 1]>>
    /\ created = 1

Init ==
    /\ maximum_volume = VolumeGrid
    /\ volume_step = VolumeGrid
    /\ InitEntity
    /\ InitPlatform
    /\ audit = "off"
    /\ dev_online \in BOOLEAN
    /\ dev_on \in BOOLEAN
    /\ dev_muted = FALSE
    /\ dev_volume \in VolumeInputs
    /\ dev_source \in Range(KEF_LS50_SOURCES)
    /\ upRun = RunFrom(dev_volume)

---------------------------------------------------------------------------
(* KefMediaPlayer.async_update *)

\* entry up to the first await
async_update_begin ==
    /\ pollPc = "idle"
    /\ pollPc' = "is_online"
    /\ pollCalls' = <<"is_online">>
    /\ pollResult' = "none"
    /\ overlap' = IF audit = "overlap" THEN cmdPc = "await" ELSE overlap
    /\ UNCHANGED <<config, setup, cmdPre, cache, dev_online, device, cmdVars, upRun>>

\* the except clause: the error is logged, nothing else happens
async_update_except ==
    /\ pollPc' = "idle"
    /\ pollResult' = "swallowed"
    /\ UNCHANGED <<pollCalls, cache>>

\* variant: the answer of is_online() is not tested
async_update_is_online_unconditional ==
    /\ pollPc = "is_online"
    /\ \E is_online \in CallOutcomes :
          /\ pollPc' = "is_muted"
          /\ pollCalls' = Append(pollCalls, "is_muted")
          /\ UNCHANGED <<pollResult, cache>>
    /\ UNCHANGED <<config, setup, history, dev_online, device, cmdVars, upRun>>

\* is_online() returns; it reports an unreachable speaker as False
\* variant: the offline branch forgets to clear the volume
async_update_is_online_keeps_volume ==
    /\ pollPc = "is_online"
    /\ \E is_online \in CallOutcomes :
          IF is_online
          THEN /\ pollPc' = "is_muted"
               /\ pollCalls' = Append(pollCalls, "is_muted")
               /\ UNCHANGED <<pollResult, cache>>
          ELSE /\ _muted' = None
               /\ _source' = None
               /\ _state' = STATE_OFF
               /\ pollPc' = "idle"
               /\ pollResult' = "offline"
               /\ UNCHANGED <<pollCalls, _volume>>
    /\ UNCHANGED <<config, setup, history, dev_online, device, cmdVars, upRun>>

async_update_is_online ==
    /\ pollPc = "is_online"
    /\ \E is_online \in CallOutcomes :
          IF is_online
          THEN /\ pollPc' = "is_muted"
               /\ pollCalls' = Append(pollCalls, "is_muted")
               /\ UNCHANGED <<pollResult, cache>>
          ELSE /\ _muted' = None
               /\ _source' = None
               /\ _volume' = NoneVolume
               /\ _state' = STATE_OFF
               /\ pollPc' = "idle"
               /\ pollResult' = "offline"
               /\ UNCHANGED pollCalls
    /\ UNCHANGED <<config, setup, history, dev_online, device, cmdVars, upRun>>

\* variant: on an error the poll starts over instead of giving up
async_update_is_muted_retries ==
    /\ pollPc = "is_muted"
    /\ \E ok \in CallOutcomes :
          IF ok
          THEN /\ _muted' = is_muted(dev_muted)
               /\ pollPc' = "get_volume"
               /\ pollCalls' = Append(pollCalls, "get_volume")
               /\ UNCHANGED <<pollResult, _state, _source, _volume>>
          ELSE /\ pollPc' = "is_online"
               /\ pollCalls' = <<"is_online">>
               /\ UNCHANGED <<pollResult, cache>>
    /\ UNCHANGED <<config, setup, history, dev_online, device, cmdVars, upRun>>

async_update_is_muted ==
    /\ pollPc = "is_muted"
    /\ \E ok \in CallOutcomes :
          IF ok
          THEN /\ _muted' = is_muted(dev_muted)
               /\ pollPc' = "get_volume"
               /\ pollCalls' = Append(pollCalls, "get_volume")
               /\ UNCHANGED <<pollResult, _state, _source, _volume>>
          ELSE async_update_except
    /\ UNCHANGED <<config, setup, history, dev_online, device, cmdVars, upRun>>

\* variant: a volume already cached is kept
async_update_get_volume_once ==
    /\ pollPc = "get_volume"
    /\ \E ok \in CallOutcomes :
          IF ok
          THEN /\ _volume' = IF _volume = NoneVolume
                              THEN get_volume(dev_volume, maximum_volume)
                              ELSE _volume
               /\ pollPc' = "get_source_and_state"
               /\ pollCalls' = Append(pollCalls, "get_source_and_state")
               /\ UNCHANGED <<pollResult, _state, _source, _muted>>
          ELSE async_update_except
    /\ UNCHANGED <<config, setup, history, dev_online, device, cmdVars, upRun>>

async_update_get_volume ==
    /\ pollPc = "get_volume"
    /\ \E ok \in CallOutcomes :
          IF ok
          THEN /\ _volume' = get_volume(dev_volume, maximum_volume)
               /\ pollPc' = "get_source_and_state"
               /\ pollCalls' = Append(pollCalls, "get_source_and_state")
               /\ UNCHANGED <<pollResult, _state, _source, _muted>>
          ELSE async_update_except
    /\ UNCHANGED <<config, setup, history, dev_online, device, cmdVars, upRun>>

\* variant: the display state follows the presence of a source, not is_on
async_update_get_source_and_state_by_source ==
    /\ pollPc = "get_source_and_state"
    /\ \E ok \in CallOutcomes :
          IF ok
          THEN LET reply == get_source_and_state(dev_source, dev_on)
               IN  /\ _source' = reply[1]
                   /\ _state' = IF reply[1] # None THEN STATE_ON ELSE STATE_OFF
                   /\ pollPc' = "idle"
                   /\ pollResult' = "online"
                   /\ UNCHANGED <<pollCalls, _muted, _volume>>
          ELSE async_update_except
    /\ UNCHANGED <<config, setup, history, dev_online, device, cmdVars, upRun>>

async_update_get_source_and_state ==
    /\ pollPc = "get_source_and_state"
    /\ \E ok \in CallOutcomes :
          IF ok
          THEN LET reply == get_source_and_state(dev_source, dev_on)
                   is_on == reply[2]
               IN  /\ _source' = reply[1]
                   /\ _state' = IF is_on THEN STATE_ON ELSE STATE_OFF
                   /\ pollPc' = "idle"
                   /\ pollResult' = "online"
                   /\ UNCHANGED <<pollCalls, _muted, _volume>>
          ELSE async_update_except
    /\ UNCHANGED <<config, setup, history, dev_online, device, cmdVars, upRun>>

async_update ==
    \/ async_update_begin
    \/ async_update_is_online
    \/ async_update_is_muted
    \/ async_update_get_volume
    \/ async_update_get_source_and_state

---------------------------------------------------------------------------
(* Command entry points: shared shape of a handler around its one await *)

\* the handler runs up to its await of the client call `call`
CmdBegin(op, args, call) ==
    /\ cmdPc = "idle"
    /\ cmdPc' = "await"
    /\ cmdOp' = op
    /\ cmdArgs' = args
    /\ cmdCalls' = <<call>>
    /\ cmdCallResult' = "pending"
    /\ cmdOutcome' = "none"
    /\ overlap' = IF audit = "overlap" THEN pollPc # "idle" ELSE overlap
    /\ cmdPre' = IF audit = "snapshot" THEN cache ELSE cmdPre

\* the awaited client call returned and the handler ran to its end
CmdReturn ==
    /\ cmdPc' = "idle"
    /\ cmdCallResult' = "ok"
    /\ cmdOutcome' = "ok"
    /\ UNCHANGED <<cmdOp, cmdArgs, cmdCalls>>

\* the awaited client call raised; no handler catches, the error leaves it
CmdRaise ==
    /\ cmdPc' = "idle"
    /\ cmdCallResult' = "failed"
    /\ cmdOutcome' = "CommunicationError"
    /\ UNCHANGED <<cmdOp, cmdArgs, cmdCalls>>

\* a failed client call wrote nothing to the speaker
CmdFailed ==
    /\ CmdRaise
    /\ UNCHANGED <<cache, device, upRun>>

Awaiting(op) == cmdPc = "await" /\ cmdOp = op

---------------------------------------------------------------------------
(* KefMediaPlayer.async_turn_off / async_turn_on *)

async_turn_off_begin ==
    /\ CmdBegin("turn_off", NoArgs, "turn_off")
    /\ UNCHANGED <<config, setup, cache, dev_online, device, pollVars, upRun>>

async_turn_off_end ==
    /\ Awaiting("turn_off")
    /\ \E ok \in CallOutcomes :
          IF ok
          THEN /\ dev_on' = FALSE
               /\ _state' = STATE_ON
               /\ CmdReturn
               /\ UNCHANGED <<_muted, _source, _volume,
                              dev_muted, dev_volume, dev_source, upRun>>
          ELSE CmdFailed
    /\ UNCHANGED <<config, setup, history, dev_online, pollVars>>

async_turn_on_begin ==
    /\ CmdBegin("turn_on", NoArgs, "turn_on")
    /\ UNCHANGED <<config, setup, cache, dev_online, device, pollVars, upRun>>

\* variant: a failed turn_on is sent a second time
async_turn_on_end_retries ==
    /\ Awaiting("turn_on")
    /\ \E ok \in CallOutcomes :
          IF ok
          THEN /\ dev_on' = TRUE
               /\ _state' = STATE_OFF
               /\ CmdReturn
               /\ UNCHANGED <<_muted, _source, _volume,
                              dev_muted, dev_volume, dev_source, upRun>>
          ELSE IF Len(cmdCalls) < 2
               THEN /\ cmdCalls' = Append(cmdCalls, "turn_on")
                    /\ UNCHANGED <<cmdPc, cmdOp, cmdArgs, cmdCallResult, cmdOutcome,
                                   cache, device, upRun>>
               ELSE CmdFailed
    /\ UNCHANGED <<config, setup, history, dev_online, pollVars>>

async_turn_on_end ==
    /\ Awaiting("turn_on")
    /\ \E ok \in CallOutcomes :
          IF ok
          THEN /\ dev_on' = TRUE
               /\ _state' = STATE_OFF
               /\ CmdReturn
               /\ UNCHANGED <<_muted, _source, _volume,
                              dev_muted, dev_volume, dev_source, upRun>>
          ELSE CmdFailed
    /\ UNCHANGED <<config, setup, history, dev_online, pollVars>>

---------------------------------------------------------------------------
(* KefMediaPlayer.async_volume_up / async_volume_down *)

async_volume_up_begin ==
    /\ CmdBegin("volume_up", NoArgs, "increase_volume")
    /\ UNCHANGED <<config, setup, cache, dev_online, device, pollVars, upRun>>

\* variant: the entity adds the step itself instead of caching the returned value
async_volume_up_end_own_sum ==
    /\ Awaiting("volume_up")
    /\ \E ok \in CallOutcomes :
          IF ok
          THEN LET returned == increase_volume(dev_volume, volume_step, maximum_volume)
               IN  /\ dev_volume' = returned
                   /\ _volume' = get_volume(dev_volume, maximum_volume) + volume_step
                   /\ upRun' = RunAfterIncrease
                   /\ CmdReturn
                   /\ UNCHANGED <<_state, _muted, _source,
                                  dev_on, dev_muted, dev_source>>
          ELSE CmdFailed
    /\ UNCHANGED <<config, setup, history, dev_online, pollVars>>

async_volume_up_end ==
    /\ Awaiting("volume_up")
    /\ \E ok \in CallOutcomes :
          IF ok
          THEN LET returned == increase_volume(dev_volume, volume_step, maximum_volume)
               IN  /\ dev_volume' = returned
                   /\ _volume' = returned
                   /\ upRun' = RunAfterIncrease
                   /\ CmdReturn
                   /\ UNCHANGED <<_state, _muted, _source,
                                  dev_on, dev_muted, dev_source>>
          ELSE CmdFailed
    /\ UNCHANGED <<config, setup, history, dev_online, pollVars>>

async_volume_down_begin ==
    /\ CmdBegin("volume_down", NoArgs, "decrease_volume")
    /\ UNCHANGED <<config, setup, cache, dev_online, device, pollVars, upRun>>

\* variant: the handler catches the client error and returns normally
async_volume_down_end_swallows ==
    /\ Awaiting("volume_down")
    /\ \E ok \in CallOutcomes :
          IF ok
          THEN LET returned == decrease_volume(dev_volume, volume_step, maximum_volume)
               IN  /\ dev_volume' = returned
                   /\ _volume' = returned
                   /\ upRun' = RunFrom(returned)
                   /\ CmdReturn
                   /\ UNCHANGED <<_state, _muted, _source,
                                  dev_on, dev_muted, dev_source>>
          ELSE /\ cmdPc' = "idle"
               /\ cmdCallResult' = "failed"
               /\ cmdOutcome' = "ok"
               /\ UNCHANGED <<cmdOp, cmdArgs, cmdCalls, cache, device, upRun>>
    /\ UNCHANGED <<config, setup, history, dev_online, pollVars>>

async_volume_down_end ==
    /\ Awaiting("volume_down")
    /\ \E ok \in CallOutcomes :
          IF ok
          THEN LET returned == decrease_volume(dev_volume, volume_step, maximum_volume)
               IN  /\ dev_volume' = returned
                   /\ _volume' = returned
                   /\ upRun' = RunFrom(returned)
                   /\ CmdReturn
                   /\ UNCHANGED <<_state, _muted, _source,
                                  dev_on, dev_muted, dev_source>>
          ELSE CmdFailed
    /\ UNCHANGED <<config, setup, history, dev_online, pollVars>>

---------------------------------------------------------------------------
(* KefMediaPlayer.async_set_volume_level *)

async_set_volume_level_begin(volume) ==
    /\ CmdBegin("set_volume_level", [NoArgs EXCEPT !.volume = volume], "set_volume")
    /\ UNCHANGED <<config, setup, cache, dev_online, device, pollVars, upRun>>

async_set_volume_level_end ==
    /\ Awaiting("set_volume_level")
    /\ \E ok \in CallOutcomes :
          IF ok
          THEN LET volume == cmdArgs.volume
                   written == set_volume(volume, maximum_volume)
               IN  /\ dev_volume' = written
                   /\ _volume' = volume
                   /\ upRun' = RunFrom(written)
                   /\ CmdReturn
                   /\ UNCHANGED <<_state, _muted, _source,
                                  dev_on, dev_muted, dev_source>>
          ELSE CmdFailed
    /\ UNCHANGED <<config, setup, history, dev_online, pollVars>>

---------------------------------------------------------------------------
(* KefMediaPlayer.async_mute_volume *)

async_mute_volume_begin(mute) ==
    /\ CmdBegin("mute_volume", [NoArgs EXCEPT !.mute = mute],
                IF mute THEN "mute" ELSE "unmute")
    /\ UNCHANGED <<config, setup, cache, dev_online, device, pollVars, upRun>>

\* variant: muting is cached as volume 0
async_mute_volume_end_zeroes_volume ==
    /\ Awaiting("mute_volume")
    /\ \E ok \in CallOutcomes :
          IF ok
          THEN LET mute == cmdArgs.mute
               IN  /\ dev_muted' = mute
                   /\ _muted' = PyBool(mute)
                   /\ _volume' = IF mute THEN 0 ELSE _volume
                   /\ CmdReturn
                   /\ UNCHANGED <<_state, _source,
                                  dev_on, dev_volume, dev_source, upRun>>
          ELSE CmdFailed
    /\ UNCHANGED <<config, setup, history, dev_online, pollVars>>

async_mute_volume_end ==
    /\ Awaiting("mute_volume")
    /\ \E ok \in CallOutcomes :
          IF ok
          THEN LET mute == cmdArgs.mute
               IN  /\ dev_muted' = mute
                   /\ _muted' = PyBool(mute)
                   /\ CmdReturn
                   /\ UNCHANGED <<_state, _source, _volume,
                                  dev_on, dev_volume, dev_source, upRun>>
          ELSE CmdFailed
    /\ UNCHANGED <<config, setup, history, dev_online, pollVars>>

---------------------------------------------------------------------------
(* KefMediaPlayer.source_list / async_select_source *)

source_list == _sources

\* `source in self.source_list`
InSourceList(source) == \E i \in 1..Len(source_list) : source_list[i] = source

\* variant: no membership test, every source is cached and sent
async_select_source_begin_unchecked(source) ==
    /\ cmdPc = "idle"
    /\ _source' = source
    /\ CmdBegin("select_source", [NoArgs EXCEPT !.source = source], "set_source")
    /\ UNCHANGED <<_state, _muted, _volume>>
    /\ UNCHANGED <<config, setup, dev_online, device, pollVars, upRun>>

\* variant: an unknown source is added to the list and selected
async_select_source_begin_learns(source) ==
    /\ cmdPc = "idle"
    /\ _sources' = IF InSourceList(source) THEN _sources
                                            ELSE Append(_sources, source)
    /\ _source' = source
    /\ CmdBegin("select_source", [NoArgs EXCEPT !.source = source], "set_source")
    /\ UNCHANGED <<_state, _muted, _volume>>
    /\ UNCHANGED <<config, platform, audit, dev_online, device, pollVars, upRun>>

\* the cache is written before the await; an unknown source raises at once
async_select_source_begin(source) ==
    /\ cmdPc = "idle"
    /\ IF InSourceList(source)
       THEN /\ _source' = source
            /\ CmdBegin("select_source", [NoArgs EXCEPT !.source = source],
                        "set_source")
            /\ UNCHANGED <<_state, _muted, _volume>>
       ELSE /\ cmdPc' = "idle"
            /\ cmdOp' = "select_source"
            /\ cmdArgs' = [NoArgs EXCEPT !.source = source]
            /\ cmdCalls' = <<>>
            /\ cmdCallResult' = "none"
            /\ cmdOutcome' = "ValueError"
            /\ cmdPre' = IF audit = "snapshot" THEN cache ELSE cmdPre
            /\ UNCHANGED <<cache, overlap>>
    /\ UNCHANGED <<config, setup, dev_online, device, pollVars, upRun>>

async_select_source_end ==
    /\ Awaiting("select_source")
    /\ \E ok \in CallOutcomes :
          IF ok
          THEN /\ dev_source' = cmdArgs.source
               /\ CmdReturn
               /\ UNCHANGED <<cache, dev_on, dev_muted, dev_volume, upRun>>
          ELSE CmdFailed
    /\ UNCHANGED <<config, setup, history, dev_online, pollVars>>

---------------------------------------------------------------------------
(* The speaker's surroundings *)

\* the network path to the speaker comes and goes
NetworkChange ==
    /\ dev_online' = ~dev_online
    /\ UNCHANGED <<config, setup, history, cache, device, pollVars, cmdVars, upRun>>

\* the speaker's own controls: standby / wake
RemotePower ==
    /\ dev_on' = ~dev_on
    /\ UNCHANGED <<config, setup, history, cache, dev_online, dev_muted, dev_volume, dev_source,
                   pollVars, cmdVars, upRun>>

\* the speaker's own controls: the volume knob is not bound by maximum_volume
RemoteVolume ==
    /\ \E v \in VolumeInputs :
          /\ v # dev_volume
          /\ dev_volume' = v
          /\ upRun' = RunFrom(v)
    /\ UNCHANGED <<config, setup, history, cache, dev_online, dev_on, dev_muted, dev_source,
                   pollVars, cmdVars>>

---------------------------------------------------------------------------
Command ==
    \/ async_turn_off_begin
    \/ async_turn_off_end
    \/ async_turn_on_begin
    \/ async_turn_on_end
    \/ async_volume_up_begin
    \/ async_volume_up_end
    \/ async_volume_down_begin
    \/ async_volume_down_end
    \/ \E volume \in VolumeInputs : async_set_volume_level_begin(volume)
    \/ async_set_volume_level_end
    \/ \E mute \in BOOLEAN : async_mute_volume_begin(mute)
    \/ async_mute_volume_end
    \/ \E source \in SourceInputs : async_select_source_begin(source)
    \/ async_select_source_end

Environment ==
    \/ NetworkChange
    \/ RemotePower
    \/ RemoteVolume

Next ==
    \/ async_update
    \/ Command
    \/ Environment

Spec == Init /\ [][Next]_vars

---------------------------------------------------------------------------
(* Relative volume steps with the default configuration, any start volume *)

InitVol ==
    /\ maximum_volume = DEFAULT_MAX_VOLUME
    /\ volume_step = DEFAULT_VOLUME_STEP
    /\ InitEntity
    /\ InitPlatform
    /\ audit = "off"
    /\ dev_online = TRUE
    /\ dev_on = TRUE
    /\ dev_muted = FALSE
    /\ dev_volume \in 0..FullScale
    /\ dev_source = KEF_LS50_SOURCES[1]
    /\ upRun = RunFrom(dev_volume)

NextVol ==
    \/ async_volume_up_begin
    \/ async_volume_up_end
    \/ async_volume_down_begin
    \/ async_volume_down_end

SpecVol == InitVol /\ [][NextVol]_vars
---------------------------------------------------------------------------
(* async_setup_platform *)

MaxSetups == 4              \* calls of async_setup_platform explored

\* variant: the entity is registered and added without looking at the registry
async_setup_platform_unguarded(host, port) ==
    /\ created < MaxSetups
    /\ LET unique_id == UniqueId(host, port)
           media_player == created + 1
       IN  /\ created' = media_player
           /\ hass_data' = [hass_data EXCEPT ![unique_id] = media_player]
           /\ added' = Append(added, [unique_id |-> unique_id,
                                      entity |-> media_player])
    /\ UNCHANGED <<config, cache, dev_online, device, pollVars, cmdVars, upRun,
                   _sources, audit, history>>

\* the handler has no await: one call is one step
async_setup_platform(host, port) ==
    /\ created < MaxSetups
    /\ LET unique_id == UniqueId(host, port)
           media_player == created + 1
       IN  /\ created' = media_player
           /\ IF hass_data[unique_id] # 0
              THEN UNCHANGED <<hass_data, added>>
              ELSE /\ hass_data' = [hass_data EXCEPT ![unique_id] = media_player]
                   /\ added' = Append(added, [unique_id |-> unique_id,
                                              entity |-> media_player])
    /\ UNCHANGED <<config, cache, dev_online, device, pollVars, cmdVars, upRun,
                   _sources, audit, history>>

\* before the first setup: hass.data has no DATA_KEF entry, read as {}
InitSetup ==
    /\ maximum_volume = DEFAULT_MAX_VOLUME
    /\ volume_step = DEFAULT_VOLUME_STEP
    /\ InitEntity
    /\ hass_data = [u \in UniqueIds |-> 0]
    /\ added = <<>>
    /\ created = 0
    /\ audit = "off"
    /\ dev_online = TRUE
    /\ dev_on = TRUE
    /\ dev_muted = FALSE
    /\ dev_volume = 0
    /\ dev_source = KEF_LS50_SOURCES[1]
    /\ upRun = 0

NextSetup == \E host \in Hosts, port \in Ports : async_setup_platform(host, port)

SpecSetup == InitSetup /\ [][NextSetup]_vars

---------------------------------------------------------------------------
(* Polls and commands against a reachable speaker that nothing else changes,
   with the overlap of poll and command recorded *)

InitOverlap ==
    /\ maximum_volume = VolumeGrid
    /\ volume_step = VolumeGrid
    /\ InitEntity
    /\ InitPlatform
    /\ audit = "overlap"
    /\ dev_online = TRUE
    /\ dev_on \in BOOLEAN
    /\ dev_muted = FALSE
    /\ dev_volume \in VolumeInputs
    /\ dev_source \in Range(KEF_LS50_SOURCES)
    /\ upRun = RunFrom(dev_volume)

NextOverlap ==
    \/ async_update
    \/ Command

SpecOverlap == InitOverlap /\ [][NextOverlap]_vars

---------------------------------------------------------------------------
(* Progress: every awaited client call returns or raises within its timeout,
   and the event loop then resumes the handler *)

PollResumes ==
    \/ async_update_is_online
    \/ async_update_is_muted
    \/ async_update_get_volume
    \/ async_update_get_source_and_state

CommandResumes ==
    \/ async_turn_off_end
    \/ async_turn_on_end
    \/ async_volume_up_end
    \/ async_volume_down_end
    \/ async_set_volume_level_end
    \/ async_mute_volume_end
    \/ async_select_source_end

Fairness == WF_vars(PollResumes) /\ WF_vars(CommandResumes)

\* one argument per command: progress does not depend on the values
InitLive ==
    /\ maximum_volume = VolumeGrid
    /\ volume_step = VolumeGrid
    /\ InitEntity
    /\ InitPlatform
    /\ audit = "off"
    /\ dev_online \in BOOLEAN
    /\ dev_on = TRUE
    /\ dev_muted = FALSE
    /\ dev_volume = 0
    /\ dev_source = KEF_LS50_SOURCES[1]
    /\ upRun = 0

NextLive ==
    \/ async_update_begin
    \/ PollResumes
    \/ async_turn_off_begin
    \/ async_turn_on_begin
    \/ async_volume_up_begin
    \/ async_volume_down_begin
    \/ async_set_volume_level_begin(VolumeGrid)
    \/ async_mute_volume_begin(TRUE)
    \/ \E source \in {KEF_LS50_SOURCES[2], "Unknown"} :
          async_select_source_begin(source)
    \/ CommandResumes

SpecLive == InitLive /\ [][NextLive]_vars /\ Fairness

---------------------------------------------------------------------------
(* Commands alone, no poll in between, with the cache at invocation recorded *)

InitCmd ==
    /\ maximum_volume = VolumeGrid
    /\ volume_step = VolumeGrid
    /\ InitEntity
    /\ InitPlatform
    /\ audit = "snapshot"
    /\ dev_online \in BOOLEAN
    /\ dev_on \in BOOLEAN
    /\ dev_muted = FALSE
    /\ dev_volume \in VolumeInputs
    /\ dev_source \in Range(KEF_LS50_SOURCES)
    /\ upRun = RunFrom(dev_volume)

NextCmd ==
    \/ Command
    \/ Environment

SpecCmd == InitCmd /\ [][NextCmd]_vars

---------------------------------------------------------------------------
(* Properties *)

EnumeratedSources == Range(KEF_LS50_SOURCES)
CommandReturned(op) == Awaiting(op) /\ cmdOutcome' = "ok"
PollFailed == pollPc # "idle" /\ pollResult' = "swallowed"

\* C1: the volume level the entity reports is unknown (None) or lies in
\* [0.0, maximum_volume], whatever polls and commands ran.
VolumeLevelWithinCeiling ==
    _volume = NoneVolume \/ (0 <= _volume /\ _volume <= maximum_volume)

\* C2: after async_set_volume_level(v) succeeds, a following get_volume()
\* returns min(v, maximum_volume) and the entity's volume_level is that value.
SetVolumeLevelCachesClampedVolume ==
    [][CommandReturned("set_volume_level") =>
          /\ get_volume(dev_volume', maximum_volume)
                = Min(cmdArgs.volume, maximum_volume)
          /\ _volume' = get_volume(dev_volume', maximum_volume)]_vars

\* C3: when async_turn_on completes the reported state is on, and when
\* async_turn_off completes the reported state is off.
PowerCommandSetsReportedState ==
    [][/\ CommandReturned("turn_on") => _state' = STATE_ON
       /\ CommandReturned("turn_off") => _state' = STATE_OFF]_vars

\* C4: selecting a source outside the enumerated set always ends in an error,
\* sends no request to the speaker and changes no cached field.
UnknownSourceIsRejected ==
    /\ [](cmdOp = "select_source" /\ cmdArgs.source \notin EnumeratedSources
            => /\ cmdOutcome = "ValueError"
               /\ cmdCalls = <<>>
               /\ cmdPc = "idle")
    /\ [][(/\ cmdOp' = "select_source"
           /\ cmdArgs'.source \notin EnumeratedSources
           /\ cmdVars' # cmdVars)
            => UNCHANGED <<cache, device>>]_vars

UnknownSourceWasRequested ==
    /\ cmdOp = "select_source"
    /\ cmdArgs.source = "Unknown"
    /\ cmdOutcome = "ValueError"
    /\ _source \in EnumeratedSources

\* C5: is_online() answers False for an unreachable speaker instead of raising,
\* and a poll that got False ends normally with state off and muted, volume
\* and source unknown, having issued no call but is_online.
OfflinePollClearsSnapshot ==
    /\ [](pollResult = "offline" => pollCalls = <<"is_online">>)
    /\ [][(pollPc = "is_online" /\ pollPc' # pollPc /\ ~dev_online)
            => pollResult' = "offline"]_vars
    /\ [][(pollPc = "is_online" /\ pollResult' = "offline")
            => /\ pollPc' = "idle"
               /\ _state' = STATE_OFF
               /\ _muted' = None
               /\ _volume' = NoneVolume
               /\ _source' = None]_vars

OfflinePollAfterCommand ==
    /\ pollResult = "offline"
    /\ ~dev_online
    /\ cmdOp = "set_volume_level"
    /\ cmdOutcome = "ok"
    /\ _state = STATE_OFF
    /\ _volume = NoneVolume

\* C6: when a client call of a poll fails, async_update returns without
\* raising and leaves the degraded snapshot: state off or unknown, and muted,
\* volume and source unknown, never stale or partly refreshed values.
FailedPollLeavesDegradedSnapshot ==
    [][PollFailed =>
          /\ pollPc' = "idle"
          /\ _state' \in {STATE_OFF, None}
          /\ _muted' = None
          /\ _volume' = NoneVolume
          /\ _source' = None]_vars

\* C7: no command completes normally when its client call failed; the failure
\* reaches the caller as an error.
CommandFailureIsSurfaced ==
    /\ cmdCallResult = "failed" => cmdOutcome = "CommunicationError"
    /\ cmdOutcome = "ok" => cmdCallResult = "ok"

CommandFailed ==
    /\ cmdCallResult = "failed"
    /\ cmdOutcome = "CommunicationError"
    /\ cmdOp = "volume_down"
    /\ dev_online

\* C8: muting and unmuting leave the volume alone: get_volume() after the call
\* returns what it returned before, and async_mute_volume changes only the
\* cached muted flag.
MuteLeavesVolumeAlone ==
    [][(Awaiting("mute_volume") /\ cmdPc' = "idle") =>
          /\ get_volume(dev_volume', maximum_volume)
                = get_volume(dev_volume, maximum_volume)
          /\ UNCHANGED <<_volume, _source, _state>>
          /\ cmdOutcome' = "ok" => _muted' = PyBool(cmdArgs.mute)
          /\ cmdOutcome' # "ok" => UNCHANGED _muted]_vars

MutedAtAudibleVolume ==
    /\ cmdOp = "mute_volume"
    /\ cmdArgs.mute
    /\ cmdOutcome = "ok"
    /\ _muted = "True"
    /\ dev_muted
    /\ _volume > 0
    /\ dev_volume > 0

\* C9: n increases from 0 leave the volume at min(n * step, maximum_volume);
\* a decrease never goes below 0; with ceiling 0.5 and step 0.05 an increase
\* from 0.48 gives 0.5; and volume_level after async_volume_up /
\* async_volume_down is the value the client returned.
RelativeStepsStayInRange ==
    /\ [](upRun >= 0 =>
            dev_volume = Min(upRun * volume_step, maximum_volume))
    /\ [][CommandReturned("volume_up") =>
            /\ _volume' = dev_volume'
            /\ _volume' = Min(get_volume(dev_volume, maximum_volume) + volume_step,
                              maximum_volume)
            /\ (dev_volume = 48 /\ volume_step = 5 /\ maximum_volume = 50)
                  => _volume' = 50]_vars
    /\ [][CommandReturned("volume_down") =>
            /\ _volume' = dev_volume'
            /\ _volume' >= 0
            /\ _volume' = Max(get_volume(dev_volume, maximum_volume) - volume_step,
                              0)]_vars

IncreasedPastCeiling ==
    /\ cmdOp = "volume_up"
    /\ cmdOutcome = "ok"
    /\ upRun > maximum_volume \div volume_step
    /\ _volume = maximum_volume

\* C10: when a poll's get_source_and_state() reports the speaker powered off,
\* the state becomes off whatever the source, and the source is still cached.
PoweredOffPollKeepsSource ==
    [][(/\ pollPc = "get_source_and_state"
        /\ pollResult' = "online"
        /\ ~dev_on)
         => /\ _state' = STATE_OFF
            /\ _source' = dev_source]_vars

PolledPoweredOffSpeaker ==
    /\ pollResult = "online"
    /\ pollPc = "idle"
    /\ cmdPc = "idle"
    /\ ~dev_on
    /\ _state = STATE_OFF
    /\ _source = dev_source
    /\ _source = "Wifi"

AddedFor(unique_id) == {i \in 1..Len(added) : added[i].unique_id = unique_id}

\* C11: whatever async_setup_platform calls ran, at most one entity per
\* host:port was added, it is the registered one, and a setup for a registered
\* host:port neither adds an entity nor replaces the registered one.
RegistryPreventsDuplicateSetup ==
    /\ [](\A u \in UniqueIds :
            /\ Cardinality(AddedFor(u)) <= 1
            /\ hass_data[u] = 0 => AddedFor(u) = {}
            /\ hass_data[u] # 0 =>
                  \E i \in AddedFor(u) : added[i].entity = hass_data[u])
    /\ [][\A u \in UniqueIds :
            hass_data[u] # 0 =>
               /\ hass_data'[u] = hass_data[u]
               /\ AddedFor(u)' = AddedFor(u)]_vars

SetupWasRepeated ==
    /\ created = 3
    /\ Len(added) = 2
    /\ hass_data[ThisUniqueId] = 1

\* the cache shows what the client reads from the speaker
CacheMatchesDevice ==
    /\ _muted = PyBool(dev_muted)
    /\ _volume = Clamp(dev_volume, maximum_volume)
    /\ _source = dev_source
    /\ _state = IF dev_on THEN STATE_ON ELSE STATE_OFF

BothCompleted ==
    /\ pollPc = "idle"
    /\ pollResult = "online"
    /\ cmdPc = "idle"
    /\ cmdOutcome = "ok"

\* C12: when a poll and a command overlapped and both completed without
\* error, every cached field equals the speaker's value, whatever the
\* interleaving of their suspension points.
OverlapLeavesCacheTrue ==
    (overlap /\ BothCompleted) => CacheMatchesDevice

\* the same for async_select_source alone, which needs no other defect to fail
SelectOverlapLeavesSourceTrue ==
    (overlap /\ BothCompleted /\ cmdOp = "select_source") => _source = dev_source

\* C18: a poll whose client calls all succeed, with no command in flight
\* during it and a speaker nothing else changes, leaves muted, volume, source
\* and state equal to the speaker's, whatever the cache held before.
QuietPollRebuildsSnapshot ==
    [][(/\ pollPc = "get_source_and_state"
        /\ pollResult' = "online"
        /\ ~overlap')
         => CacheMatchesDevice']_vars

StaleVolumeWasRefreshed ==
    /\ BothCompleted
    /\ ~overlap
    /\ cmdOp = "set_volume_level"
    /\ cmdArgs.volume > maximum_volume
    /\ CacheMatchesDevice

\* C13: every started poll and every started command eventually finishes,
\* normally or with a communication error, also when the speaker never answers.
NoOperationHangs ==
    /\ (pollPc # "idle") ~> (pollPc = "idle")
    /\ (cmdPc = "await") ~> (cmdPc = "idle")

FinishedAgainstSilentSpeaker ==
    /\ ~dev_online
    /\ pollPc = "idle"
    /\ pollResult = "offline"
    /\ cmdPc = "idle"
    /\ cmdOutcome = "CommunicationError"

PollOrder == <<"is_online", "is_muted", "get_volume", "get_source_and_state">>

\* C14: within one poll is_online is called first; is_muted, get_volume and
\* get_source_and_state follow in that order, each at most once, and only
\* after is_online returned true in that poll.
PollCallsAreOrdered ==
    /\ [](/\ \E n \in 0..Len(PollOrder) : pollCalls = SubSeq(PollOrder, 1, n)
          /\ pollPc # "idle" => Len(pollCalls) >= 1
          /\ Len(pollCalls) >= 2 => pollResult # "offline")
    /\ [][pollCalls' # pollCalls =>
            \/ pollPc = "idle" /\ pollCalls' = <<"is_online">>
            \/ /\ Len(pollCalls) < Len(PollOrder)
               /\ pollCalls' = Append(pollCalls, PollOrder[Len(pollCalls) + 1])
               /\ Len(pollCalls) = 1 => (pollPc = "is_online" /\ dev_online)]_vars

PollRanAllCalls ==
    /\ pollCalls = PollOrder
    /\ pollResult = "online"
    /\ pollPc = "idle"

\* C15: an invocation of a command entry point issues exactly one client
\* request, none for an unknown source, and nothing after that request failed;
\* a poll that failed issues nothing more until the next poll starts.
NoRetries ==
    /\ [](/\ cmdOp # "none" =>
                Len(cmdCalls) = IF cmdOutcome = "ValueError" THEN 0 ELSE 1
          /\ cmdCallResult = "failed" => cmdPc = "idle"
          /\ pollResult = "swallowed" => pollPc = "idle")
    /\ [][/\ PollFailed => pollCalls' = pollCalls
          /\ cmdCallResult' = "failed" => cmdCalls' = cmdCalls
          /\ (pollResult = "swallowed" /\ pollCalls' # pollCalls)
                => (pollResult' = "none" /\ pollCalls' = <<"is_online">>)
          /\ (cmdCallResult = "failed" /\ cmdCalls' # cmdCalls)
                => cmdCallResult' \in {"pending", "none"}]_vars

GaveUpAfterOneRequest ==
    /\ cmdCallResult = "failed"
    /\ cmdCalls = <<"turn_on">>
    /\ cmdPc = "idle"
    /\ pollResult = "swallowed"
    /\ pollPc = "idle"

\* C16: when the client call of a command raises, state, muted, volume and
\* source are what they were when the command was invoked.
FailedCommandLeavesCache ==
    cmdOutcome = "CommunicationError" => cache = cmdPre

\* C17: the cached source is unknown (None) or one of source_list, the speaker
\* reporting enumerated sources only; source_list stays as constructed.
CachedSourceIsEnumerated ==
    /\ _source = None \/ _source \in Range(_sources)
    /\ _sources = KEF_LS50_SOURCES

SourceWasSelected ==
    /\ cmdOp = "select_source"
    /\ cmdOutcome = "ok"
    /\ _source = cmdArgs.source
    /\ _source = dev_source
    /\ pollResult = "online"
====
